---- MODULE Spec2Model ----
(***************************************************************************)
(* Orbit evaluator and retrograde curve sampler of the solar-system scene  *)
(* (SolarSystem.tsx with CameraTransition): the Planet useFrame callback,  *)
(* the React state it reads and writes, the frame toggle of SolarSystem    *)
(* and the RetrogradeCurve behind the geocentric orbit rings.              *)
(* The rings' hover and click handlers with the info panel, and the camera *)
(* transition, are followed by specifications of their own (SpecRings,     *)
(* SpecCamera); SpecAll runs every handler together for a few events and   *)
(* SpecEvaluator runs the Planet callback alone on chosen inputs.          *)
(*                                                                         *)
(* Numbers are fixed point.  Angles and the values of cos/sin are counted  *)
(* in 1/Unit (Unit = 10000: an angle of 290 is 0.029 rad, a cosine of      *)
(* 10000 is 1).  Lengths (radii) are counted in 1/200 scene units, so that *)
(* 0.05 x radius and 0.1 x radius are whole numbers for every radius of    *)
(* the scene.  A coordinate is a length times a cosine: 1/(200*Unit).      *)
(***************************************************************************)
EXTENDS Integers, Sequences, FiniteSets, TLC

VARIABLES
    isHeliocentric,     \* SolarSystem: useState(true)
    mounted,            \* names of the Planet instances in the tree
    angle,              \* Planet: the angle state (last value given to setAngle)
    seen,               \* Planet: the angle the current useFrame closure captured
    pos,                \* Planet: groupRef.current.position (local to its parent)
    props,              \* Planet: the props each mounted instance was rendered with
    ringMesh,           \* OrbitRing: what each ring's render returned
    retroTubeGeometry,  \* OrbitRing: the memoized retrograde tube, <<>> when null
    hitboxTubeGeometry, \* OrbitRing: the memoized hit-test tube, <<>> when null
    memoDeps,           \* OrbitRing: the dependencies both memos were computed for
    frames,             \* frame ticks so far (bounds the exploration)
    animTrigger,        \* SolarSystem: useState(false), flipped by every toggle
    targetPos,          \* CameraTransition: the targetPos prop of the last render
    animProgressRef,    \* CameraTransition: animProgressRef.current, in 1/ProgressOne
    startPosRef,        \* CameraTransition: startPosRef.current
    cameraPos,          \* camera.position, in scene units
    isHovered,          \* OrbitRing: useState(false)
    isSelected,         \* OrbitRing: useState(false)
    lastClickTime,      \* OrbitRing: useState(0), in ms
    selectedObjectInfo, \* SolarSystem: useState(null), the info panel's content
    now,                \* the clock Date.now() reads, in ms
    clicks,             \* ring clicks so far (bounds the exploration)
    clicked,            \* the ring the last click event hit, "" before the first
    budget,             \* events left to explore, Unlimited when not counted
    evaluation          \* a Planet callback run on its own: its inputs and outcome

sceneVars == <<mounted, angle, seen, pos, props, ringMesh, retroTubeGeometry,
               hitboxTubeGeometry, memoDeps, frames>>

cameraVars == <<animTrigger, targetPos, animProgressRef, startPosRef, cameraPos>>

ringVars == <<isHovered, isSelected, lastClickTime, selectedObjectInfo, now, clicks,
              clicked>>

vars == <<isHeliocentric, sceneVars, cameraVars, ringVars, budget, evaluation>>

-----------------------------------------------------------------------------
(* Bounds of the exploration *)

\* Ring clicks explored after the initial state.
MaxClicks == 2

\* Events explored when every handler of the scene is followed together.
MaxEvents == 2

\* Frame lengths drawn for the camera transition: 2, 4, .., 2 * MaxDelta.
MaxDelta == 2

\* Frame ticks explored after the initial state.
MaxFrames == 5

\* SpecFar starts after k * WarmStride committed frames, k in 0..MaxWarm.
MaxWarm == 7

WarmStride == 25

-----------------------------------------------------------------------------
(* Fixed-point arithmetic: Math.cos, Math.sin, Math.PI *)

Unit == 10000

Pi == 31416

TwoPi == 2 * Pi

HalfPi == Pi \div 2

QuarterPi == Pi \div 4

\* Taylor polynomials on [0, pi/4]; x and the result are in 1/Unit.
CosTaylor(x) ==
    LET x2 == (x * x) \div Unit
        x4 == (x2 * x2) \div Unit
        x6 == (x4 * x2) \div Unit
    IN  Unit - (x2 \div 2) + (x4 \div 24) - (x6 \div 720)

SinTaylor(x) ==
    LET x2 == (x * x) \div Unit
        x3 == (x * x2) \div Unit
        x5 == (x3 * x2) \div Unit
        x7 == (x5 * x2) \div Unit
    IN  x - (x3 \div 6) + (x5 \div 120) - (x7 \div 5040)

\* First quadrant, 0 <= x <= pi/2.
CosQ(x) == IF x <= QuarterPi THEN CosTaylor(x) ELSE SinTaylor(HalfPi - x)

SinQ(x) == IF x <= QuarterPi THEN SinTaylor(x) ELSE CosTaylor(HalfPi - x)

\* Math.cos / Math.sin of an angle a (any integer, in 1/Unit rad).
Cos(a) ==
    LET x == a % TwoPi
    IN  IF x <= HalfPi THEN CosQ(x)
        ELSE IF x <= Pi THEN -CosQ(Pi - x)
        ELSE IF x <= Pi + HalfPi THEN -CosQ(x - Pi)
        ELSE CosQ(TwoPi - x)

Sin(a) ==
    LET x == a % TwoPi
    IN  IF x <= HalfPi THEN SinQ(x)
        ELSE IF x <= Pi THEN SinQ(Pi - x)
        ELSE IF x <= Pi + HalfPi THEN -SinQ(x - Pi)
        ELSE -SinQ(TwoPi - x)

\* A scene vector [x, 0, 0] given x in 1/200 scene units.
OnXAxis(x) == <<x * Unit, 0, 0>>

-----------------------------------------------------------------------------
(* The scene SolarSystem declares *)

Bodies ==
    {"Sun", "Mercury", "Venus", "Earth", "Moon", "Mars", "Jupiter", "Saturn",
     "Uranus", "Neptune", "Pluto"}

\* Bodies declared under {isHeliocentric && ...}.
HeliocentricOnly == {"Uranus", "Neptune", "Pluto"}

\* (variant) the Moon declared inside a frame ternary of its own
AlwaysMountedEarth == {"Earth"}

\* Bodies declared once, outside any frame ternary: Earth and its child Moon.
AlwaysMounted == {"Earth", "Moon"}

\* (variant) the outer three left outside the {isHeliocentric && ...} guard
DisplayedAll(h) == Bodies

\* The Planet elements SolarSystem renders for a frame value.
Displayed(h) == IF h THEN Bodies ELSE Bodies \ HeliocentricOnly

\* orbitSpeed prop, in 1/Unit rad per tick.
OrbitSpeed(n) ==
    CASE n = "Sun"     -> 200
      [] n = "Mercury" -> 470
      [] n = "Venus"   -> 350
      [] n = "Earth"   -> 290
      [] n = "Moon"    -> 700
      [] n = "Mars"    -> 240
      [] n = "Jupiter" -> 130
      [] n = "Saturn"  -> 90
      [] n = "Uranus"  -> 60
      [] n = "Neptune" -> 50
      [] n = "Pluto"   -> 40

\* orbitRadius prop for a frame value h, in 1/200 scene units.
OrbitRadius(n, h) ==
    CASE n = "Sun"     -> IF h THEN 0 ELSE 6000
      [] n = "Mercury" -> 780
      [] n = "Venus"   -> 1440
      [] n = "Earth"   -> IF h THEN 2000 ELSE 0
      [] n = "Moon"    -> 400
      [] n = "Mars"    -> IF h THEN 3040 ELSE 8040
      [] n = "Jupiter" -> 10400
      [] n = "Saturn"  -> 19160
      [] n = "Uranus"  -> 38400
      [] n = "Neptune" -> 60100
      [] n = "Pluto"   -> 78960

\* (variant) Earth's position prop without its frame ternary: [10, 0, 0] always
PositionEarthFixed(n, h) ==
    CASE n = "Sun"     -> OnXAxis(0)
      [] n = "Mercury" -> OnXAxis(780)
      [] n = "Venus"   -> OnXAxis(1440)
      [] n = "Earth"   -> OnXAxis(2000)
      [] n = "Moon"    -> OnXAxis(0)
      [] n = "Mars"    -> IF h THEN OnXAxis(3040) ELSE OnXAxis(7040)
      [] n = "Jupiter" -> OnXAxis(10400)
      [] n = "Saturn"  -> OnXAxis(19160)
      [] n = "Uranus"  -> OnXAxis(38400)
      [] n = "Neptune" -> OnXAxis(60100)
      [] n = "Pluto"   -> OnXAxis(78960)

\* position prop (used for fixed bodies) for a frame value h.
Position(n, h) ==
    CASE n = "Sun"     -> OnXAxis(0)
      [] n = "Mercury" -> OnXAxis(780)
      [] n = "Venus"   -> OnXAxis(1440)
      [] n = "Earth"   -> IF h THEN OnXAxis(2000) ELSE OnXAxis(0)
      [] n = "Moon"    -> OnXAxis(0)
      [] n = "Mars"    -> IF h THEN OnXAxis(3040) ELSE OnXAxis(7040)
      [] n = "Jupiter" -> OnXAxis(10400)
      [] n = "Saturn"  -> OnXAxis(19160)
      [] n = "Uranus"  -> OnXAxis(38400)
      [] n = "Neptune" -> OnXAxis(60100)
      [] n = "Pluto"   -> OnXAxis(78960)

\* <group position={orbitRadius > 0 ? [orbitRadius, 0, 0] : position}>
GroupPosition(n, h) ==
    IF OrbitRadius(n, h) > 0 THEN OnXAxis(OrbitRadius(n, h)) ELSE Position(n, h)

-----------------------------------------------------------------------------
(* Planet: the useFrame callback *)

\* (variant) a decimal slip: orbitRadius * 0.5
EpicycleRadiusHalf(orbitRadius) == (orbitRadius * 50) \div 100

\* orbitRadius * 0.05
EpicycleRadius(orbitRadius) == (orbitRadius * 5) \div 100

\* (variant) the ring's multiplier used for the live motion: -newAngle * 2
EpicycleAngleDouble(newAngle) == -(newAngle * 2)

\* -newAngle * 1.5
EpicycleAngle(newAngle) == -((newAngle * 15) \div 10)

\* (variant) the name test dropped: every body follows the frame.
PlanetFrameNoExempt(name, h, orbitRadius, orbitSpeed, position, a, p) ==
    LET newAngle == a + orbitSpeed
        deferentX == Cos(newAngle) * orbitRadius
        deferentZ == Sin(newAngle) * orbitRadius
        epiX == Cos(EpicycleAngle(newAngle)) * EpicycleRadius(orbitRadius)
        epiZ == Sin(EpicycleAngle(newAngle)) * EpicycleRadius(orbitRadius)
    IN  [angle |-> newAngle,
         pos |->
            IF orbitRadius > 0
            THEN IF h
                 THEN <<deferentX, p[2], deferentZ>>
                 ELSE <<deferentX + epiX, p[2], deferentZ + epiZ>>
            ELSE position]

\* (variant) only Earth is exempt, the Moon is forgotten.
PlanetFrameEarthOnly(name, h, orbitRadius, orbitSpeed, position, a, p) ==
    LET newAngle == a + orbitSpeed
        deferentX == Cos(newAngle) * orbitRadius
        deferentZ == Sin(newAngle) * orbitRadius
        epiX == Cos(EpicycleAngle(newAngle)) * EpicycleRadius(orbitRadius)
        epiZ == Sin(EpicycleAngle(newAngle)) * EpicycleRadius(orbitRadius)
    IN  [angle |-> newAngle,
         pos |->
            IF orbitRadius > 0
            THEN IF h \/ name = "Earth"
                 THEN <<deferentX, p[2], deferentZ>>
                 ELSE <<deferentX + epiX, p[2], deferentZ + epiZ>>
            ELSE position]

\* (variant) the position is computed from the captured angle, not newAngle.
PlanetFrameOldAngle(name, h, orbitRadius, orbitSpeed, position, a, p) ==
    LET newAngle == a + orbitSpeed
        deferentX == Cos(a) * orbitRadius
        deferentZ == Sin(a) * orbitRadius
        epiX == Cos(EpicycleAngle(a)) * EpicycleRadius(orbitRadius)
        epiZ == Sin(EpicycleAngle(a)) * EpicycleRadius(orbitRadius)
    IN  [angle |-> newAngle,
         pos |->
            IF orbitRadius > 0
            THEN IF h \/ name = "Earth" \/ name = "Moon"
                 THEN <<deferentX, p[2], deferentZ>>
                 ELSE <<deferentX + epiX, p[2], deferentZ + epiZ>>
            ELSE position]

\* (variant) the sine is written to position.y instead of position.z.
PlanetFrameVertical(name, h, orbitRadius, orbitSpeed, position, a, p) ==
    LET newAngle == a + orbitSpeed
        deferentX == Cos(newAngle) * orbitRadius
        deferentZ == Sin(newAngle) * orbitRadius
        epiX == Cos(EpicycleAngle(newAngle)) * EpicycleRadius(orbitRadius)
        epiZ == Sin(EpicycleAngle(newAngle)) * EpicycleRadius(orbitRadius)
    IN  [angle |-> newAngle,
         pos |->
            IF orbitRadius > 0
            THEN IF h \/ name = "Earth" \/ name = "Moon"
                 THEN <<deferentX, deferentZ, p[3]>>
                 ELSE <<deferentX + epiX, deferentZ + epiZ, p[3]>>
            ELSE position]

\* The callback for one Planet: name, isHeliocentric, orbitRadius, orbitSpeed
\* and position are its props, a is the angle its closure captured, p the
\* group's current position.  Gives the value passed to setAngle and the
\* group's position afterwards.
PlanetFrame(name, h, orbitRadius, orbitSpeed, position, a, p) ==
    LET newAngle == a + orbitSpeed
        deferentX == Cos(newAngle) * orbitRadius
        deferentZ == Sin(newAngle) * orbitRadius
        epicycleRadius == EpicycleRadius(orbitRadius)
        epicycleAngle == EpicycleAngle(newAngle)
        epiX == Cos(epicycleAngle) * epicycleRadius
        epiZ == Sin(epicycleAngle) * epicycleRadius
    IN  [angle |-> newAngle,
         pos |->
            IF orbitRadius > 0
            THEN IF h \/ name = "Earth" \/ name = "Moon"
                 THEN <<deferentX, p[2], deferentZ>>
                 ELSE <<deferentX + epiX, p[2], deferentZ + epiZ>>
            ELSE position]

-----------------------------------------------------------------------------
(* RetrogradeCurve and the OrbitRing geometry built from it *)

\* amplitudeFactor 0.1, in hundredths
AmplitudeFactor == 10

\* speedMultiplier 2, in tenths
SpeedMultiplier == 20

\* tubularSegments of both tube geometries
TubularSegments == 100

\* radialSegments of both tube geometries
RadialSegments == 8

\* new RetrogradeCurve(radius, amplitudeFactor, speedMultiplier)
RetrogradeCurve(radius, amplitudeFactor, speedMultiplier) ==
    [radius |-> radius, amplitudeFactor |-> amplitudeFactor,
     speedMultiplier |-> speedMultiplier]

\* (variant) the live multiplier 1.5 in place of this.speedMultiplier.
getPointSesqui(curve, i, n) ==
    LET a == (i * TwoPi) \div n
        epicycleRadius == (curve.radius * curve.amplitudeFactor) \div 100
        epicycleAngle == -((15 * a) \div 10)
    IN  <<Cos(a) * curve.radius + Cos(epicycleAngle) * epicycleRadius, 0,
          Sin(a) * curve.radius + Sin(epicycleAngle) * epicycleRadius>>

\* curve.getPoint(t) for t = i / n
getPoint(curve, i, n) ==
    LET a == (i * TwoPi) \div n
        deferentX == Cos(a) * curve.radius
        deferentZ == Sin(a) * curve.radius
        epicycleRadius == (curve.radius * curve.amplitudeFactor) \div 100
        epicycleAngle == -((curve.speedMultiplier * a) \div 10)
        epiX == Cos(epicycleAngle) * epicycleRadius
        epiZ == Sin(epicycleAngle) * epicycleRadius
    IN  <<deferentX + epiX, 0, deferentZ + epiZ>>

\* new THREE.TubeGeometry(path, tubularSegments, radius, radialSegments, closed):
\* its parameters and the centre line sampled at t = i / tubularSegments.
TubeGeometry(path, tubularSegments, radius, radialSegments, closed) ==
    [path |-> path, tubularSegments |-> tubularSegments, radius |-> radius,
     radialSegments |-> radialSegments, closed |-> closed,
     P |-> [i \in 0..tubularSegments |-> getPoint(path, i, tubularSegments)]]

\* The <OrbitRing> elements: planetName and radius (1/200 scene units).
Rings == Bodies

RingRadius(n) ==
    CASE n = "Sun"     -> 6000
      [] n = "Mercury" -> 780
      [] n = "Venus"   -> 1440
      [] n = "Earth"   -> 2000
      [] n = "Moon"    -> 400
      [] n = "Mars"    -> 8040
      [] n = "Jupiter" -> 10400
      [] n = "Saturn"  -> 19160
      [] n = "Uranus"  -> 38400
      [] n = "Neptune" -> 60100
      [] n = "Pluto"   -> 78960

\* The OrbitRing elements SolarSystem renders for a frame value.
RingDisplayed(h) ==
    IF h THEN Rings \ {"Sun"} ELSE Rings \ ({"Earth"} \cup HeliocentricOnly)

\* (variant) every ring retrograde in geocentric mode, Earth's and Moon's too
IsRetrogradeAll(n, h) == ~h

\* const isRetrograde = !isHeliocentric && (planetName !== "Earth" && planetName !== "Moon")
IsRetrograde(n, h) == ~h /\ n # "Earth" /\ n # "Moon"

\* const tubeRadius = radius === 394.8 ? 0.2 : 0.05
TubeRadius(radius) == IF radius = 78960 THEN 40 ELSE 10

\* The useMemo body of retroTubeGeometry for a retrograde ring.
RetroTube(n) ==
    TubeGeometry(RetrogradeCurve(RingRadius(n), AmplitudeFactor, SpeedMultiplier),
                 TubularSegments, TubeRadius(RingRadius(n)), RadialSegments, TRUE)

\* The tubes of all rings, computed once (the geometry depends on the radius only).
RetroTubes == [n \in Rings |-> RetroTube(n)]

\* useMemo(() => isRetrograde ? new TubeGeometry(...) : null, [isRetrograde, radius])
RetroTubeMemo(n, h) ==
    IF n \in RingDisplayed(h) /\ IsRetrograde(n, h) THEN <<RetroTubes[n]>> ELSE <<>>

\* Thickness of the invisible hit-test tube: 0.5, in 1/200 scene units.
HitboxRadius == 100

\* (variant) a hit-test tube along a curve with speed multiplier 1.5
HitboxTubeSesqui(n) ==
    TubeGeometry(RetrogradeCurve(RingRadius(n), AmplitudeFactor, 15),
                 TubularSegments, HitboxRadius, RadialSegments, TRUE)

\* The useMemo body of hitboxTubeGeometry for a retrograde ring.
HitboxTube(n) ==
    TubeGeometry(RetrogradeCurve(RingRadius(n), AmplitudeFactor, SpeedMultiplier),
                 TubularSegments, HitboxRadius, RadialSegments, TRUE)

\* The hit-test tubes of all rings, computed once.
HitboxTubes == [n \in Rings |-> HitboxTube(n)]

\* useMemo(() => isRetrograde ? new TubeGeometry(...) : null, [isRetrograde, radius])
HitboxTubeMemo(n, h) ==
    IF n \in RingDisplayed(h) /\ IsRetrograde(n, h) THEN <<HitboxTubes[n]>> ELSE <<>>

\* (variant) memos that depend on the radius only
MemoDepsRadiusOnly(n, h) == <<RingRadius(n)>>

\* The dependency list [isRetrograde, radius] of both memos.
MemoDeps(n, h) == <<IsRetrograde(n, h), RingRadius(n)>>

\* useMemo on a re-render of a mounted instance: the stored value is kept while
\* the dependencies are those it was computed for, and computed anew otherwise.
useMemo(deps, storedDeps, stored, fresh) ==
    IF deps = storedDeps THEN stored ELSE fresh

-----------------------------------------------------------------------------
(* State machine *)

Null == <<>>

Origin == <<0, 0, 0>>

\* (variant) Mars rendered with a literal isHeliocentric={true}
PlanetPropsHardCoded(n, h) ==
    [isHeliocentric |-> (h \/ n = "Mars"),
     orbitRadius    |-> OrbitRadius(n, h),
     orbitSpeed     |-> OrbitSpeed(n),
     position       |-> Position(n, h)]

\* The props SolarSystem's render passes to the Planet element of body n while
\* its isHeliocentric state is h.
PlanetProps(n, h) ==
    [isHeliocentric |-> h,
     orbitRadius    |-> OrbitRadius(n, h),
     orbitSpeed     |-> OrbitSpeed(n),
     position       |-> Position(n, h)]

\* What OrbitRing's render returns for ring n: nothing when the ring is not in
\* the tree, the tube meshes when isRetrograde, the torus meshes otherwise.
RingRender(n, h) ==
    IF n \notin RingDisplayed(h) THEN "none"
    ELSE IF IsRetrograde(n, h) THEN "tube"
    ELSE "torus"

\* The Planet elements in the order SolarSystem's JSX declares them.
DeclaredOrder ==
    <<"Sun", "Mercury", "Venus", "Earth", "Moon", "Mars", "Jupiter", "Saturn",
      "Uranus", "Neptune", "Pluto">>

Rotate(s, k) == SubSeq(s, k + 1, Len(s)) \o SubSeq(s, 1, k)

Reverse(s) == [i \in 1..Len(s) |-> s[Len(s) + 1 - i]]

\* Orders in which one frame may run the useFrame callbacks of the mounted
\* Planets m (the order of subscription, which remounts rearrange): the
\* declared order, its rotations, and the reverses of those.
FrameOrders(m) ==
    LET s == SelectSeq(DeclaredOrder, LAMBDA n : n \in m)
    IN  {Rotate(s, k) : k \in 0..(Len(s) - 1)}
            \cup {Reverse(Rotate(s, k)) : k \in 0..(Len(s) - 1)}

\* (variant) the Moon's group attached to the scene, not to Earth's group
WorldPositionFlat(p, n) == p[n]

\* Position of body n in world space for the local positions p: the Moon's
\* group is a child of Earth's group, every other group a child of the scene.
WorldPosition(p, n) ==
    IF n = "Moon"
    THEN <<p["Earth"][1] + p["Moon"][1], p["Earth"][2] + p["Moon"][2],
           p["Earth"][3] + p["Moon"][3]>>
    ELSE p[n]

\* The useFrame callback of Planet n, run on the angles and positions st: it
\* reads the props and the angle its closure captured, and writes n's own
\* angle and position, expressed in world space by adding the parent's position.
CallbackStepWorld(st, n) ==
    LET f == PlanetFrame(n, props[n].isHeliocentric, props[n].orbitRadius,
                         props[n].orbitSpeed, props[n].position,
                         seen[n], st.pos[n])
        parent == IF n = "Moon" THEN st.pos["Earth"] ELSE Origin
    IN  [angle |-> [st.angle EXCEPT ![n] = f.angle],
         pos   |-> [st.pos EXCEPT ![n] =
                        <<f.pos[1] + parent[1], f.pos[2] + parent[2],
                          f.pos[3] + parent[3]>>]]

\* The useFrame callback of Planet n, run on the angles and positions st: it
\* reads the props and the angle its closure captured, and writes n's own
\* angle and (local) position.
CallbackStep(st, n) ==
    LET f == PlanetFrame(n, props[n].isHeliocentric, props[n].orbitRadius,
                         props[n].orbitSpeed, props[n].position,
                         seen[n], st.pos[n])
    IN  [angle |-> [st.angle EXCEPT ![n] = f.angle],
         pos   |-> [st.pos EXCEPT ![n] = f.pos]]

RECURSIVE RunCallbacks(_, _)
\* The callbacks of the Planets in order, one after the other.
RunCallbacks(order, st) ==
    IF order = <<>> THEN st
    ELSE RunCallbacks(Tail(order), CallbackStep(st, Head(order)))

(* Exploration budget *)

\* The value of budget when the events are not counted.
Unlimited == -1

\* Every step takes one event off the budget, when there is one.
Spend ==
    /\ budget # 0
    /\ budget' = (IF budget > 0 THEN budget - 1 ELSE budget)

-----------------------------------------------------------------------------
(* OrbitRing: hover, click, and the info panel *)

\* if (now - lastClickTime > 200)
DebounceMs == 200

\* What Date.now() returns when the page has loaded (any value above the
\* debounce window: the real one counts from 1970).
LoadTime == 1000

\* Time between two clicks: inside, at the edge of, and outside the debounce
\* window.
Waits == {100, 200, 300}

\* (variant) a window that lets the click at exactly 200 ms through
AcceptsAtLeast(t, last) == t - last >= DebounceMs

\* if (now - lastClickTime > 200)
Accepts(t, last) == t - last > DebounceMs

\* OrbitRing elements outside {isHeliocentric && ...} / {!isHeliocentric && ...}:
\* their instances, and so their state, survive a toggle.
RingAlwaysMounted == {"Mercury", "Venus", "Mars", "Jupiter", "Saturn", "Moon"}

\* title of the InfoData getHoverInfo returns for a ring.
Title(n) ==
    CASE n = "Sun"     -> "Sun: The Formation of the Solar System"
      [] n = "Mercury" -> "Mercury: The Extreme Innermost Planet"
      [] n = "Venus"   -> "Venus: The Hostile Sister Planet"
      [] n = "Earth"   -> "Earth: Our Life-Sustaining Blue Planet"
      [] n = "Moon"    -> "Moon"
      [] n = "Mars"    -> "Mars: The Red Planet of Contrasts"
      [] n = "Jupiter" -> "Jupiter: The King of the Gas Giants"
      [] n = "Saturn"  -> "Saturn: The Ringed Wonder of the Solar System"
      [] n = "Uranus"  -> "Uranus: The Tilted Ice Giant"
      [] n = "Neptune" -> "Neptune: The Distant Blue World"
      [] n = "Pluto"   -> "Pluto: , Comets, Asteroids, and the Kuiper Belt"

\* getHoverInfo(): the InfoData of the ring (its texts and links are left out).
getHoverInfo(n) == [planetName |-> n, title |-> Title(n)]

\* (variant) a button that only ever switches to geocentric
ToggledFrameGeo(h) == FALSE

\* setIsHeliocentric(!isHeliocentric)
ToggledFrame(h) == ~h

\* (variant) a toggle that leaves the info panel alone
ToggledInfoKept(info) == info

\* setSelectedObjectInfo(null)
ToggledInfo(info) == Null

\* The rings and the info panel after the mount.
RingInit ==
    /\ isHovered = [n \in Rings |-> FALSE]
    /\ isSelected = [n \in Rings |-> FALSE]
    /\ lastClickTime = [n \in Rings |-> 0]
    /\ selectedObjectInfo = Null
    /\ now = LoadTime
    /\ clicks = 0
    /\ clicked = ""

\* onClick of a ring's hit mesh, some time after the previous click.
ClickRing ==
    \E n \in Rings, wait \in Waits :
        /\ ringMesh[n] # "none"
        /\ clicks < MaxClicks
        /\ clicks' = clicks + 1
        /\ now' = now + wait
        /\ clicked' = n
        /\ IF Accepts(now', lastClickTime[n])
           THEN LET newSelected == ~isSelected[n]
                IN  /\ isSelected' = [isSelected EXCEPT ![n] = newSelected]
                    /\ lastClickTime' = [lastClickTime EXCEPT ![n] = now']
                    /\ selectedObjectInfo' =
                            (IF newSelected THEN <<getHoverInfo(n)>> ELSE Null)
           ELSE UNCHANGED <<isSelected, lastClickTime, selectedObjectInfo>>
        /\ Spend
        /\ UNCHANGED <<isHeliocentric, evaluation, sceneVars, cameraVars, isHovered>>

\* onPointerOver of a ring's hit mesh.
PointerOver ==
    \E n \in Rings :
        /\ ringMesh[n] # "none"
        /\ ~isHovered[n]
        /\ isHovered' = [isHovered EXCEPT ![n] = TRUE]
        /\ Spend
        /\ UNCHANGED <<isHeliocentric, evaluation, sceneVars, cameraVars, isSelected,
                       lastClickTime, selectedObjectInfo, now, clicks, clicked>>

\* onPointerOut of a ring's hit mesh.
PointerOut ==
    \E n \in Rings :
        /\ ringMesh[n] # "none"
        /\ isHovered[n]
        /\ isHovered' = [isHovered EXCEPT ![n] = FALSE]
        /\ Spend
        /\ UNCHANGED <<isHeliocentric, evaluation, sceneVars, cameraVars, isSelected,
                       lastClickTime, selectedObjectInfo, now, clicks, clicked>>

-----------------------------------------------------------------------------
(* CameraTransition *)

\* Progress is counted in 1/ProgressOne: ProgressOne is a progress of 1.
ProgressOne == 2

\* delta of a frame, in 1/ProgressOne seconds: even, so that delta * 0.5 is whole.
Deltas == {2 * k : k \in 1..MaxDelta}

\* const heliocentricPos = new THREE.Vector3(0, 500, 500), geocentricPos = (0, 400, 400)
heliocentricPos == <<0, 500, 500>>

geocentricPos == <<0, 400, 400>>

\* const targetPos = isHeliocentric ? heliocentricPos : geocentricPos
TargetPos(h) == IF h THEN heliocentricPos ELSE geocentricPos

\* <Canvas camera={{ position: [0, 200, 500] }}>
CanvasCameraPosition == <<0, 200, 500>>

\* Positions a drag of the OrbitControls leaves the camera at.
DragPositions == {<<300, 300, 300>>, <<0, 100, -600>>}

Min(a, b) == IF a < b THEN a ELSE b

\* Vector3.lerpVectors(v1, v2, alpha): v1 + (v2 - v1) * alpha
lerpVectors(v1, v2, alpha) ==
    [i \in 1..3 |-> v1[i] + ((v2[i] - v1[i]) * alpha) \div ProgressOne]

\* (variant) the effect without its progress reset
TransitionEffectNoReset(camera, progress) ==
    [startPos |-> camera, animProgress |-> progress]

\* The useEffect on [triggerAnimation, camera]: the start position becomes the
\* camera's position and the progress 0.
TransitionEffect(camera, progress) ==
    [startPos |-> camera, animProgress |-> 0]

\* The camera and the transition after the mount under frame h.
CameraInit(h) ==
    /\ animTrigger = FALSE
    /\ targetPos = TargetPos(h)
    /\ cameraPos = CanvasCameraPosition
    /\ animProgressRef = TransitionEffect(CanvasCameraPosition, 0).animProgress
    /\ startPosRef = TransitionEffect(CanvasCameraPosition, 0).startPos

\* (variant) the callback without its `if (animProgressRef.current < 1)`
CameraCallbackUnguarded(progress, start, target, camera, delta) ==
    LET p == Min(progress + (delta * 5) \div 10, ProgressOne)
    IN  [animProgress |-> p, cameraPos |-> lerpVectors(start, target, p)]

\* The body of the useFrame callback: below 1 the progress grows by delta * 0.5,
\* capped at 1, and the camera is written; at 1 nothing is written.
CameraCallback(progress, start, target, camera, delta) ==
    IF progress < ProgressOne
    THEN LET p == Min(progress + (delta * 5) \div 10, ProgressOne)
         IN  [animProgress |-> p, cameraPos |-> lerpVectors(start, target, p)]
    ELSE [animProgress |-> progress, cameraPos |-> camera]

\* The useFrame callback of CameraTransition, for a frame of length delta.
CameraFrame ==
    \E delta \in Deltas :
        /\ animProgressRef' =
                CameraCallback(animProgressRef, startPosRef, targetPos, cameraPos,
                               delta).animProgress
        /\ cameraPos' =
                CameraCallback(animProgressRef, startPosRef, targetPos, cameraPos,
                               delta).cameraPos
        /\ Spend
        /\ UNCHANGED <<isHeliocentric, evaluation, sceneVars, animTrigger, targetPos, startPosRef,
                       ringVars>>

\* The user moves the camera with the OrbitControls.
Drag ==
    \E p \in DragPositions :
        /\ cameraPos # p
        /\ cameraPos' = p
        /\ Spend
        /\ UNCHANGED <<isHeliocentric, evaluation, sceneVars, animTrigger, targetPos,
                       animProgressRef, startPosRef, ringVars>>

Init ==
    /\ isHeliocentric = TRUE
    /\ mounted = Displayed(TRUE)
    /\ angle = [n \in Bodies |-> 0]
    /\ seen = [n \in Bodies |-> 0]
    /\ pos = [n \in Bodies |-> GroupPosition(n, TRUE)]
    /\ props = [n \in Displayed(TRUE) |-> PlanetProps(n, TRUE)]
    /\ ringMesh = [n \in Rings |-> RingRender(n, TRUE)]
    /\ retroTubeGeometry = [n \in Bodies |-> Null]
    /\ hitboxTubeGeometry = [n \in Bodies |-> Null]
    /\ memoDeps = [n \in Rings |-> MemoDeps(n, TRUE)]
    /\ frames = 0
    /\ CameraInit(TRUE)
    /\ RingInit
    /\ budget = Unlimited
    /\ evaluation = Null

\* One frame of the render loop: every mounted Planet's useFrame callback runs,
\* in some order.
Tick ==
    /\ frames < MaxFrames
    /\ frames' = frames + 1
    /\ \E order \in FrameOrders(mounted) :
            LET st == RunCallbacks(order, [angle |-> angle, pos |-> pos])
            IN  /\ angle' = st.angle
                /\ pos' = st.pos
    /\ Spend
    /\ UNCHANGED <<isHeliocentric, mounted, seen, props, ringMesh,
                   retroTubeGeometry, hitboxTubeGeometry, memoDeps, cameraVars,
                   ringVars, evaluation>>

\* React commits the queued setAngle updates: every Planet re-renders and its
\* useFrame callback is replaced by one that closes over the new angle.
Render ==
    /\ \E n \in mounted : seen[n] # angle[n]
    /\ seen' = [n \in Bodies |-> IF n \in mounted THEN angle[n] ELSE seen[n]]
    /\ Spend
    /\ UNCHANGED <<isHeliocentric, mounted, angle, pos, props, ringMesh,
                   retroTubeGeometry, hitboxTubeGeometry, memoDeps, frames,
                   cameraVars, ringVars, evaluation>>

\* The toggle button's onClick and the re-render React flushes for it.  Earth
\* and Moon keep their instances (the group's position prop is applied again
\* only when its value changed); every other Planet sits in a ternary whose
\* branches differ in element type (Trail / Planet) or under
\* {isHeliocentric && ...}, so it is unmounted and a fresh instance mounted.
\* The rings outside a frame conditional keep their instances and memos.
Toggle ==
    LET h == ToggledFrame(isHeliocentric)
    IN  /\ isHeliocentric' = h
        /\ mounted' = Displayed(h)
        /\ angle' = [n \in Bodies |-> IF n \in AlwaysMounted THEN angle[n] ELSE 0]
        /\ seen' = [n \in Bodies |-> IF n \in AlwaysMounted THEN seen[n] ELSE 0]
        /\ pos' = [n \in Bodies |->
                IF n \in AlwaysMounted
                THEN IF GroupPosition(n, h) # GroupPosition(n, isHeliocentric)
                     THEN GroupPosition(n, h)
                     ELSE pos[n]
                ELSE IF n \in Displayed(h) THEN GroupPosition(n, h) ELSE Origin]
        /\ props' = [n \in Displayed(h) |-> PlanetProps(n, h)]
        /\ ringMesh' = [n \in Rings |-> RingRender(n, h)]
        /\ retroTubeGeometry' = [n \in Rings |->
                IF n \in RingAlwaysMounted
                THEN useMemo(MemoDeps(n, h), memoDeps[n], retroTubeGeometry[n],
                             RetroTubeMemo(n, h))
                ELSE RetroTubeMemo(n, h)]
        /\ hitboxTubeGeometry' = [n \in Rings |->
                IF n \in RingAlwaysMounted
                THEN useMemo(MemoDeps(n, h), memoDeps[n], hitboxTubeGeometry[n],
                             HitboxTubeMemo(n, h))
                ELSE HitboxTubeMemo(n, h)]
        /\ memoDeps' = [n \in Rings |-> MemoDeps(n, h)]
        /\ animTrigger' = ~animTrigger
        /\ targetPos' = TargetPos(h)
        /\ animProgressRef' = TransitionEffect(cameraPos, animProgressRef).animProgress
        /\ startPosRef' = TransitionEffect(cameraPos, animProgressRef).startPos
        /\ selectedObjectInfo' = ToggledInfo(selectedObjectInfo)
        /\ isHovered' = [n \in Rings |-> n \in RingAlwaysMounted /\ isHovered[n]]
        /\ isSelected' = [n \in Rings |-> n \in RingAlwaysMounted /\ isSelected[n]]
        /\ lastClickTime' = [n \in Rings |->
                IF n \in RingAlwaysMounted THEN lastClickTime[n] ELSE 0]
        /\ Spend
        /\ UNCHANGED <<frames, cameraPos, now, clicks, clicked, evaluation>>

Next == Tick \/ Render \/ Toggle

\* The scene after the frame was set to h at startup and k * WarmStride frames
\* ran, each committed by a render before the next: every mounted body has
\* advanced by that many speeds and sits where its last tick put it.
InitFar ==
    \E k \in 0..MaxWarm, h \in BOOLEAN :
        LET K == k * WarmStride
        IN  /\ isHeliocentric = h
            /\ mounted = Displayed(h)
            /\ angle = [n \in Bodies |->
                    IF n \in Displayed(h) THEN K * OrbitSpeed(n) ELSE 0]
            /\ seen = [n \in Bodies |->
                    IF n \in Displayed(h) THEN K * OrbitSpeed(n) ELSE 0]
            /\ pos = [n \in Bodies |->
                    IF n \notin Displayed(h) THEN Origin
                    ELSE IF K = 0 THEN GroupPosition(n, h)
                    ELSE PlanetFrame(n, h, OrbitRadius(n, h), OrbitSpeed(n),
                                     Position(n, h), (K - 1) * OrbitSpeed(n),
                                     GroupPosition(n, h)).pos]
            /\ props = [n \in Displayed(h) |-> PlanetProps(n, h)]
            /\ ringMesh = [n \in Rings |-> RingRender(n, h)]
            /\ retroTubeGeometry = [n \in Rings |-> RetroTubeMemo(n, h)]
            /\ hitboxTubeGeometry = [n \in Rings |-> HitboxTubeMemo(n, h)]
            /\ memoDeps = [n \in Rings |-> MemoDeps(n, h)]
            /\ frames = 0
            /\ CameraInit(h)
            /\ RingInit
            /\ budget = Unlimited
            /\ evaluation = Null

Spec == Init /\ [][Next]_vars

\* The camera transition alone: its frames, the user's drags and the toggles.
\* The render loop keeps running, so a frame that can advance the transition
\* is eventually run.
NextCamera == CameraFrame \/ Drag \/ Toggle

SpecCamera == Init /\ [][NextCamera]_vars /\ WF_vars(CameraFrame)

\* The rings and the info panel alone: the clicks and the toggles.
NextRings == ClickRing \/ Toggle

SpecRings == Init /\ [][NextRings]_vars

\* The Planet callback on its own: the isHeliocentric prop is declared boolean,
\* a declaration that is erased when the program runs, so a caller outside the
\* type checker can hand it any value.  JavaScript values are written as text.
FrameValues == {"true", "false", "undefined", "null", "0", "NaN", "'ecliptic'"}

\* The values the conditions of the callback take as false.
Falsy == {"false", "undefined", "null", "0", "NaN", "''"}

\* Whether the callback throws for the frame value: no path of it does.
ThrowsOn(frame) == FALSE

\* Angles the callback is run at, in 1/Unit rad.
EvaluationAngles == {0, 7854}

InitEvaluator ==
    /\ isHeliocentric = TRUE
    /\ mounted = Displayed(TRUE)
    /\ angle = [n \in Bodies |-> 0]
    /\ seen = [n \in Bodies |-> 0]
    /\ pos = [n \in Bodies |-> GroupPosition(n, TRUE)]
    /\ props = [n \in Displayed(TRUE) |-> PlanetProps(n, TRUE)]
    /\ ringMesh = [n \in Rings |-> RingRender(n, TRUE)]
    /\ retroTubeGeometry = [n \in Bodies |-> Null]
    /\ hitboxTubeGeometry = [n \in Bodies |-> Null]
    /\ memoDeps = [n \in Rings |-> MemoDeps(n, TRUE)]
    /\ frames = 0
    /\ CameraInit(TRUE)
    /\ RingInit
    /\ budget = Unlimited
    /\ \E n \in Bodies, h \in BOOLEAN, frame \in FrameValues, a \in EvaluationAngles :
            evaluation = <<[name |-> n, orbitRadius |-> OrbitRadius(n, h),
                            orbitSpeed |-> OrbitSpeed(n), position |-> Position(n, h),
                            isHeliocentric |-> frame, angle |-> a,
                            done |-> FALSE, rejected |-> FALSE, pos |-> Origin]>>

\* One run of the callback on the inputs of the evaluation: the conditions
\* `isHeliocentric || ...` coerce the frame value to a boolean.
Evaluate ==
    /\ evaluation # Null
    /\ ~evaluation[1].done
    /\ LET e == evaluation[1]
           f == PlanetFrame(e.name, e.isHeliocentric \notin Falsy, e.orbitRadius,
                            e.orbitSpeed, e.position, e.angle, e.position)
       IN  evaluation' =
               IF ThrowsOn(e.isHeliocentric)
               THEN <<[e EXCEPT !.done = TRUE, !.rejected = TRUE]>>
               ELSE <<[e EXCEPT !.done = TRUE, !.angle = f.angle, !.pos = f.pos]>>
    /\ UNCHANGED <<isHeliocentric, sceneVars, cameraVars, ringVars, budget>>

NextEvaluator == Evaluate

SpecEvaluator == InitEvaluator /\ [][NextEvaluator]_vars

\* Every handler of the scene, followed for MaxEvents events.
InitAll ==
    /\ isHeliocentric = TRUE
    /\ mounted = Displayed(TRUE)
    /\ angle = [n \in Bodies |-> 0]
    /\ seen = [n \in Bodies |-> 0]
    /\ pos = [n \in Bodies |-> GroupPosition(n, TRUE)]
    /\ props = [n \in Displayed(TRUE) |-> PlanetProps(n, TRUE)]
    /\ ringMesh = [n \in Rings |-> RingRender(n, TRUE)]
    /\ retroTubeGeometry = [n \in Bodies |-> Null]
    /\ hitboxTubeGeometry = [n \in Bodies |-> Null]
    /\ memoDeps = [n \in Rings |-> MemoDeps(n, TRUE)]
    /\ frames = 0
    /\ CameraInit(TRUE)
    /\ RingInit
    /\ budget = MaxEvents
    /\ evaluation = Null

NextAll ==
    Tick \/ Render \/ Toggle \/ CameraFrame \/ Drag \/ ClickRing \/ PointerOver
        \/ PointerOut

SpecAll == InitAll /\ [][NextAll]_vars

SpecFar == InitFar /\ [][Next]_vars

-----------------------------------------------------------------------------
(* Reference formulas the properties compare the model against *)

Exempt == {"Earth", "Moon"}

\* A step of Tick / of Toggle.
TickStep == frames' = frames + 1

ToggleStep == isHeliocentric' # isHeliocentric

\* (r cos a, 0, r sin a)
PlainCircular(r, a) == <<Cos(a) * r, 0, Sin(a) * r>>

\* Deferent plus an epicycle of radius pct/100 * r at angle -(tenths/10) * a.
DeferentEpicycle(r, a, pct, tenths) ==
    LET e == (r * pct) \div 100
        b == -((a * tenths) \div 10)
    IN  <<Cos(a) * r + Cos(b) * e, 0, Sin(a) * r + Sin(b) * e>>

\* Squared distance of p from the orbit centre over r squared, in 1/Unit^2.
RelDist2(p, r) == ((p[1] \div r) * (p[1] \div r)) + ((p[3] \div r) * (p[3] \div r))

\* Rounding allowance of the fixed-point cosine and sine on cos^2 + sin^2
\* (5e-4 of the squared radius).
Tolerance == 5 * Unit

OnCircle(p, r) ==
    /\ RelDist2(p, r) >= (Unit * Unit) - Tolerance
    /\ RelDist2(p, r) <= (Unit * Unit) + Tolerance

-----------------------------------------------------------------------------
(* Properties *)

\* C1: toggling the reference frame, in either direction, leaves the stored
\* angle of every body as it was before the toggle.
C1_ToggleKeepsAngles ==
    [][ToggleStep => \A n \in Bodies : angle'[n] = angle[n]]_vars

\* C2: in a tick of a body with orbit radius > 0 the plain circular formula is
\* used whenever the frame is heliocentric or the body is Earth or Moon, and
\* the deferent+epicycle formula exactly when the frame is geocentric and the
\* body is neither (the Sun included).
C2_FormulaChoice ==
    [][TickStep =>
        \A n \in mounted :
            LET r == OrbitRadius(n, isHeliocentric)
                circular == PlainCircular(r, angle'[n])
                epicyclic == DeferentEpicycle(r, angle'[n], 5, 15)
            IN  r > 0 =>
                    /\ (isHeliocentric \/ n \in Exempt)
                            => (pos'[n] = circular /\ pos'[n] # epicyclic)
                    /\ (~isHeliocentric /\ n \notin Exempt)
                            => (pos'[n] = epicyclic /\ pos'[n] # circular)]_vars

C2_Witness ==
    /\ ~isHeliocentric
    /\ frames > 0
    /\ angle["Moon"] > 0 /\ pos["Moon"] = PlainCircular(400, angle["Moon"])
    /\ angle["Sun"] > 0 /\ pos["Sun"] = DeferentEpicycle(6000, angle["Sun"], 5, 15)

\* C3 as stated: a geocentric tick of a non-exempt body with radius r > 0 and
\* new angle a writes (r cos a + 0.1 r cos(-1.5 a), 0, r sin a + 0.1 r sin(-1.5 a)).
C3_EpicycleTenth ==
    [][(TickStep /\ ~isHeliocentric) =>
        \A n \in mounted \ Exempt :
            LET r == OrbitRadius(n, isHeliocentric)
            IN  r > 0 => pos'[n] = DeferentEpicycle(r, angle'[n], 10, 15)]_vars

\* C3 amended: the live epicycle radius is 0.05 r: the tick writes
\* (r cos a + 0.05 r cos(-1.5 a), 0, r sin a + 0.05 r sin(-1.5 a)).
C3_EpicycleTwentieth ==
    [][(TickStep /\ ~isHeliocentric) =>
        \A n \in mounted \ Exempt :
            LET r == OrbitRadius(n, isHeliocentric)
            IN  r > 0 => pos'[n] = DeferentEpicycle(r, angle'[n], 5, 15)]_vars

C3_Witness ==
    /\ ~isHeliocentric
    /\ frames > 0
    /\ angle["Mars"] > 0
    /\ pos["Mars"] = DeferentEpicycle(8040, angle["Mars"], 5, 15)
    /\ pos["Mars"] # DeferentEpicycle(8040, angle["Mars"], 10, 15)

\* C4: a heliocentric tick of a body with radius r > 0 that starts from the
\* captured angle a with speed s writes (r cos(a+s), 0, r sin(a+s)): computed
\* from the new angle, not from a, and at distance r from the orbit centre.
C4_HeliocentricCircle ==
    [][(TickStep /\ isHeliocentric) =>
        \A n \in mounted :
            LET r == OrbitRadius(n, isHeliocentric)
            IN  r > 0 =>
                    /\ pos'[n] = PlainCircular(r, seen[n] + OrbitSpeed(n))
                    /\ pos'[n] # PlainCircular(r, seen[n])
                    /\ OnCircle(pos'[n], r)]_vars

\* radius 10, speed 0.029, start 0: after one tick the angle is 0.029 and the
\* position (9.996, 0, 0.290).
C4_Witness ==
    /\ isHeliocentric
    /\ frames = 1
    /\ angle["Earth"] = 290
    /\ pos["Earth"] = <<19992000, 0, 580000>>

\* C5: every frame tick of a mounted body increases its stored angle by
\* exactly its orbitSpeed, for every interleaving of ticks and re-renders.
C5_TickAdvancesAngle ==
    [][TickStep => \A n \in mounted : angle'[n] = angle[n] + OrbitSpeed(n)]_vars

\* C6: for a body whose orbit radius is 0 every tick sets the position to the
\* fixed position prop and still advances the stored angle by orbitSpeed.
C6_FixedBodyTick ==
    [][TickStep =>
        \A n \in mounted :
            OrbitRadius(n, isHeliocentric) = 0 =>
                /\ pos'[n] = Position(n, isHeliocentric)
                /\ angle'[n] = angle[n] + OrbitSpeed(n)]_vars

\* C7: for Earth and Moon two evaluations with the same angle, speed and orbit
\* radius under the two frames give the same new angle and position.
C7_FrameInvariance ==
    \A n \in Exempt :
        \A r \in {OrbitRadius(n, TRUE), OrbitRadius(n, FALSE)} :
            PlanetFrame(n, TRUE, r, OrbitSpeed(n), Position(n, isHeliocentric),
                        seen[n], pos[n])
          = PlanetFrame(n, FALSE, r, OrbitSpeed(n), Position(n, isHeliocentric),
                        seen[n], pos[n])

C7_Witness ==
    /\ ~isHeliocentric
    /\ frames > 1
    /\ seen["Moon"] > 0
    /\ pos["Moon"] = PlainCircular(400, angle["Moon"])
    /\ pos["Moon"] # DeferentEpicycle(400, angle["Moon"], 5, 15)

\* C8: the position a geocentric tick writes for a non-exempt body with
\* radius r > 0 lies at a distance within [0.9 r, 1.1 r] of the orbit centre.
C8_EpicycleBand ==
    [][(TickStep /\ ~isHeliocentric) =>
        \A n \in mounted \ Exempt :
            LET r == OrbitRadius(n, isHeliocentric)
            IN  r > 0 =>
                    /\ RelDist2(pos'[n], r) >= ((9 * Unit) \div 10) * ((9 * Unit) \div 10)
                    /\ RelDist2(pos'[n], r) <= ((11 * Unit) \div 10) * ((11 * Unit) \div 10)]_vars

C8_Witness ==
    /\ ~isHeliocentric
    /\ frames > 0
    /\ angle["Saturn"] > 0
    /\ pos["Saturn"] = DeferentEpicycle(19160, angle["Saturn"], 5, 15)
    /\ ~OnCircle(pos["Saturn"], 19160)

\* C9: getPoint(0) and getPoint(1) of every ring curve (amplitude factor 0.1,
\* speed multiplier 2) are the same point (radius + 0.1 radius, 0, 0), and the
\* tube built from the curve is closed.
C9_CurveClosed ==
    \A n \in Rings :
        retroTubeGeometry[n] # Null =>
            LET g == retroTubeGeometry[n][1]
                start == <<(g.path.radius + (g.path.radius \div 10)) * Unit, 0, 0>>
            IN  /\ g.path.radius = RingRadius(n)
                /\ g.path.amplitudeFactor = 10
                /\ g.path.speedMultiplier = 20
                /\ getPoint(g.path, 0, 1) = start
                /\ getPoint(g.path, 1, 1) = start
                /\ g.P[0] = start
                /\ g.P[g.tubularSegments] = start
                /\ g.closed

\* radius 52: both ends are (57.2, 0, 0).
C9_Witness ==
    /\ retroTubeGeometry["Jupiter"] # Null
    /\ retroTubeGeometry["Jupiter"][1].path.radius = 10400
    /\ getPoint(retroTubeGeometry["Jupiter"][1].path, 0, 1) = <<114400000, 0, 0>>
    /\ getPoint(retroTubeGeometry["Jupiter"][1].path, 1, 1) = <<114400000, 0, 0>>

\* C10: in every reachable state the local position of every body and every
\* point getPoint returned for a ring has y = 0.
C10_PlanarMotion ==
    /\ \A n \in mounted : pos[n][2] = 0
    /\ \A n \in Rings :
            retroTubeGeometry[n] # Null =>
                \A i \in DOMAIN retroTubeGeometry[n][1].P :
                    retroTubeGeometry[n][1].P[i][2] = 0

C10_Witness ==
    /\ ~isHeliocentric
    /\ frames > 1
    /\ pos["Venus"][3] # 0 /\ pos["Venus"][2] = 0
    /\ pos["Earth"] = Origin
    /\ retroTubeGeometry["Venus"] # Null
    /\ retroTubeGeometry["Venus"][1].P[25][3] # 0
    /\ retroTubeGeometry["Venus"][1].P[25][2] = 0

-----------------------------------------------------------------------------
(* Frame atomicity, order of the callbacks, ring shapes, displayed bodies *)

\* The frame's anchor: the body every other motion is expressed relative to.
Anchor(h) == IF h THEN "Sun" ELSE "Earth"

\* C11: a frame change is atomic for the frame ticks: in every state all
\* mounted bodies hold the same frame value, that of SolarSystem, so a tick
\* evaluates every one of them under it, and a tick after a toggle evaluates
\* every mounted body under the new frame.
C11_FrameAtomic ==
    /\ [](\A n \in mounted : props[n].isHeliocentric = isHeliocentric)
    /\ [][TickStep =>
            \A n \in mounted :
                pos'[n] = PlanetFrame(n, isHeliocentric,
                                      OrbitRadius(n, isHeliocentric), OrbitSpeed(n),
                                      Position(n, isHeliocentric),
                                      seen[n], pos[n]).pos]_vars

\* A tick ran after a toggle to geocentric: Mars left its mount position.
C11_Witness ==
    /\ ~isHeliocentric
    /\ frames >= 1
    /\ props["Mars"].isHeliocentric = FALSE
    /\ pos["Mars"] # GroupPosition("Mars", FALSE)

\* C12: within one tick the per-body updates commute: whatever order the
\* callbacks of the mounted bodies run in, the angles and positions after the
\* tick are the same.
C12_UpdatesCommute ==
    [][TickStep =>
        \A order \in FrameOrders(mounted) :
            RunCallbacks(order, [angle |-> angle, pos |-> pos])
                = [angle |-> angle', pos |-> pos']]_vars

\* A tick moved both Earth and its child Moon.
C12_Witness ==
    /\ isHeliocentric
    /\ frames >= 1
    /\ pos["Earth"] # GroupPosition("Earth", TRUE)
    /\ pos["Moon"] # GroupPosition("Moon", TRUE)
    /\ Cardinality(FrameOrders(mounted)) > 2

C15_StaticDefinitions ==
    [][\A n \in (mounted \cap mounted') \ {"Sun", "Earth"} :
            /\ props'[n].orbitRadius = props[n].orbitRadius
            /\ props'[n].orbitSpeed = props[n].orbitSpeed]_vars

\* C18: Uranus, Neptune and Pluto (body and ring) are displayed exactly when
\* the frame is heliocentric; the bodies from the Sun to Saturn are displayed
\* in both frames.
C18_OuterThreeHeliocentricOnly ==
    /\ \A n \in {"Uranus", "Neptune", "Pluto"} :
            /\ (n \in mounted) <=> isHeliocentric
            /\ (n \in DOMAIN props) <=> isHeliocentric
            /\ (ringMesh[n] # "none") <=> isHeliocentric
    /\ \A n \in {"Sun", "Mercury", "Venus", "Earth", "Moon", "Mars", "Jupiter",
                  "Saturn"} :
            n \in mounted /\ n \in DOMAIN props

C18_Witness ==
    /\ ~isHeliocentric
    /\ "Pluto" \notin mounted
    /\ ringMesh["Pluto"] = "none"
    /\ "Saturn" \in mounted

\* C19: in every state exactly one top-level body (every body but the Moon,
\* which is Earth's child) has orbit radius 0, and it is the frame's anchor;
\* after each tick that body's position is the origin.
C19_AnchorAtOrigin ==
    /\ []({n \in mounted \ {"Moon"} : props[n].orbitRadius = 0}
            = {Anchor(isHeliocentric)})
    /\ [][TickStep => pos'[Anchor(isHeliocentric)] = Origin]_vars

\* Earth, moved away from the origin by heliocentric ticks, is back at the
\* origin after a tick in geocentric mode.
C19_Witness ==
    /\ ~isHeliocentric
    /\ frames >= 2
    /\ angle["Earth"] > OrbitSpeed("Earth")
    /\ props["Earth"].orbitRadius = 0
    /\ pos["Earth"] = Origin

-----------------------------------------------------------------------------
(* Camera transition *)

\* While the frame stays h, an unfinished transition finishes.
TransitionFinishes(h) ==
    [](isHeliocentric = h /\ animProgressRef < ProgressOne
            => <>(isHeliocentric # h \/ animProgressRef = ProgressOne))

\* C16: after the mount and after every toggle the transition starts anew
\* (progress below 1); while frames keep coming and no further toggle occurs
\* the progress eventually reaches 1, and the frame that brings it to 1 leaves
\* the camera at the target of the current frame: (0, 500, 500) in
\* heliocentric mode, (0, 400, 400) in geocentric mode.
C16_CameraArrives ==
    /\ animProgressRef < ProgressOne
    /\ [][ToggleStep => animProgressRef' < ProgressOne]_vars
    /\ TransitionFinishes(TRUE)
    /\ TransitionFinishes(FALSE)
    /\ [](animProgressRef < ProgressOne \/
            cameraPos \in {IF isHeliocentric THEN <<0, 500, 500>> ELSE <<0, 400, 400>>}
                \cup DragPositions)
    /\ [][animProgressRef' = ProgressOne /\ animProgressRef < ProgressOne
            => cameraPos' = (IF isHeliocentric THEN <<0, 500, 500>>
                             ELSE <<0, 400, 400>>)]_vars

\* The transition to the geocentric target finished after a toggle.
C16_Witness ==
    /\ ~isHeliocentric
    /\ animTrigger
    /\ animProgressRef = ProgressOne
    /\ startPosRef # CanvasCameraPosition
    /\ cameraPos = <<0, 400, 400>>

-----------------------------------------------------------------------------
(* Ring clicks and the frame toggle *)

\* A click on ring n that passed the debounce test.
AcceptedClick(n) ==
    /\ clicks' = clicks + 1
    /\ lastClickTime'[n] = now'
    /\ lastClickTime'[n] # lastClickTime[n]

\* C17: whenever the info panel is not showing ring n's info, an accepted
\* click on n leaves the panel showing n's info.
C17_ClickRevealsInfo ==
    [][\A n \in Rings :
            AcceptedClick(n) /\ selectedObjectInfo # <<getHoverInfo(n)>>
                => selectedObjectInfo' = <<getHoverInfo(n)>>]_vars

\* C20: the frame starts heliocentric; frame ticks, ring clicks, hover
\* events, camera frames and drags leave it unchanged; each toggle (the step
\* that flips animTrigger) flips it, so that it is heliocentric exactly after
\* an even number of toggles.
C20_OnlyToggleChangesFrame ==
    /\ isHeliocentric = TRUE
    /\ [][animTrigger' # animTrigger => isHeliocentric' = ~isHeliocentric]_vars
    /\ [][(\/ animTrigger' = animTrigger
           \/ frames' # frames
           \/ clicks' # clicks
           \/ animProgressRef' > animProgressRef
           \/ cameraPos' # cameraPos)
                => isHeliocentric' = isHeliocentric]_vars
    /\ [](isHeliocentric <=> ~animTrigger)

\* Two toggles in a row: the frame is heliocentric again.
C20_Witness ==
    /\ budget = MaxEvents - 2
    /\ isHeliocentric
    /\ ~animTrigger
    /\ startPosRef = CanvasCameraPosition
    /\ frames = 0 /\ clicks = 0
    /\ ringMesh["Sun"] = "none"
    /\ retroTubeGeometry["Mars"] = Null
    /\ \A n \in Rings : ~isHovered[n]

-----------------------------------------------------------------------------
(* Frame values outside the two frames *)

-----------------------------------------------------------------------------
(* The info panel and the rings' selection *)

\* C21: every toggle (the step that flips animTrigger) leaves
\* selectedObjectInfo null, whatever was selected before.
C21_ToggleClearsInfo ==
    [][animTrigger' # animTrigger => selectedObjectInfo' = Null]_vars

\* A toggle cleared the panel that a click on Mercury's ring had filled: the
\* ring is still selected, the panel is empty.
C21_Witness ==
    /\ ~isHeliocentric
    /\ animTrigger
    /\ clicked = "Mercury"
    /\ isSelected["Mercury"]
    /\ selectedObjectInfo = Null

\* C22: ring clicks are debounced per ring.  A click on ring n at most 200 ms
\* after the ring's lastClickTime changes neither the ring's isSelected and
\* lastClickTime nor the info panel; a click more than 200 ms after it flips
\* isSelected, records the click time and sends the ring's info to the panel
\* when newly selected, null when deselected.
C22_ClickDebounce ==
    [][clicks' = clicks + 1 =>
        LET n == clicked'
        IN  IF now' - lastClickTime[n] <= 200
            THEN /\ isSelected' = isSelected
                 /\ lastClickTime' = lastClickTime
                 /\ selectedObjectInfo' = selectedObjectInfo
            ELSE /\ isSelected' = [isSelected EXCEPT ![n] = ~isSelected[n]]
                 /\ lastClickTime' = [lastClickTime EXCEPT ![n] = now']
                 /\ selectedObjectInfo' =
                        (IF ~isSelected[n] THEN <<getHoverInfo(n)>> ELSE Null)]_vars

\* Venus's ring was clicked and selected, then clicked again exactly 200 ms
\* later: the second click was dropped.
C22_Witness ==
    /\ clicks = 2
    /\ clicked = "Venus"
    /\ isSelected["Venus"]
    /\ now - lastClickTime["Venus"] = 200
    /\ selectedObjectInfo = <<getHoverInfo("Venus")>>

\* C23: the info panel is empty exactly when no mounted ring is selected.
C23_PanelEmptyIffNoneSelected ==
    (selectedObjectInfo = Null)
        <=> (\A n \in Rings : ringMesh[n] # "none" => ~isSelected[n])

-----------------------------------------------------------------------------
(* Rings against bodies; the two tubes of a retrograde ring *)

\* C24: every displayed ring belongs to a displayed body of the same name
\* whose current orbit radius is positive and equal to the ring's radius.
C24_RingTracesOrbit ==
    \A n \in Rings :
        ringMesh[n] # "none" =>
            /\ n \in mounted
            /\ props[n].orbitRadius > 0
            /\ props[n].orbitRadius = RingRadius(n)

\* C25: for every retrograde ring the visible tube and the hit-test tube
\* follow curves of the same parameters (the ring's radius, amplitude factor
\* 0.1, speed multiplier 2), both with 100 segments and closed, and so run
\* through the same points; they differ in thickness only: 0.05 (0.2 for
\* radius 394.8) against 0.5.
C25_TubesShareCurve ==
    /\ \A n \in Rings :
            ringMesh[n] = "tube" =>
                LET v == retroTubeGeometry[n][1]
                    b == hitboxTubeGeometry[n][1]
                IN  /\ v.path = [radius |-> RingRadius(n), amplitudeFactor |-> 10,
                                 speedMultiplier |-> 20]
                    /\ b.path = v.path
                    /\ v.tubularSegments = 100 /\ b.tubularSegments = 100
                    /\ v.closed /\ b.closed
                    /\ b.radialSegments = v.radialSegments
                    /\ b.P = v.P
                    /\ v.radius = (IF RingRadius(n) = 78960 THEN 40 ELSE 10)
                    /\ b.radius = 100
    /\ \A n \in Rings :
            /\ RetroTubes[n].path = HitboxTubes[n].path
            /\ RetroTubes[n].radius = (IF RingRadius(n) = 78960 THEN 40 ELSE 10)
            /\ HitboxTubes[n].radius = 100

\* Geocentric mode: Saturn's ring has both tubes, along the same curve.
C25_Witness ==
    /\ ~isHeliocentric
    /\ ringMesh["Saturn"] = "tube"
    /\ hitboxTubeGeometry["Saturn"] # Null
    /\ hitboxTubeGeometry["Saturn"][1].radius = 100
    /\ retroTubeGeometry["Saturn"][1].radius = 10
    /\ hitboxTubeGeometry["Saturn"][1].path.radius = 19160

\* C26: whenever a ring renders its retrograde branch, both memoized
\* geometries are non-null and were built for the ring's radius; and a ring
\* that renders a torus holds no tube of an earlier frame.
C26_MemoFresh ==
    \A n \in Rings :
        /\ ringMesh[n] = "tube" =>
                /\ retroTubeGeometry[n] # Null
                /\ hitboxTubeGeometry[n] # Null
                /\ retroTubeGeometry[n][1].path.radius = RingRadius(n)
                /\ hitboxTubeGeometry[n][1].path.radius = RingRadius(n)
        /\ ringMesh[n] # "tube" =>
                retroTubeGeometry[n] = Null /\ hitboxTubeGeometry[n] = Null

\* Back in geocentric mode after two earlier toggles: Mercury's ring, whose
\* instance lived through all three, shows tubes built for its radius.
C26_Witness ==
    /\ ~isHeliocentric
    /\ animTrigger
    /\ frames >= 2
    /\ angle["Earth"] >= 2 * OrbitSpeed("Earth")
    /\ ringMesh["Mercury"] = "tube"
    /\ retroTubeGeometry["Mercury"] # Null
    /\ hitboxTubeGeometry["Mercury"] # Null
    /\ memoDeps["Mercury"] = <<TRUE, 780>>

-----------------------------------------------------------------------------
(* Earth and Moon across toggles; the camera once it has arrived *)

\* C27: Earth and the Moon stay mounted across toggles and their angles are
\* never reset: each starts at 0, only a tick changes it, and a tick that
\* changes it adds exactly orbitSpeed, so the angle is orbitSpeed times the
\* number of its angle-advancing ticks.
C27_EarthMoonKeepAngles ==
    /\ angle["Earth"] = 0 /\ angle["Moon"] = 0
    /\ []({"Earth", "Moon"} \subseteq mounted)
    /\ [][\A n \in {"Earth", "Moon"} :
            IF frames' = frames + 1
            THEN angle'[n] \in {angle[n], angle[n] + OrbitSpeed(n)}
            ELSE angle'[n] = angle[n]]_vars
    /\ [](\A n \in {"Earth", "Moon"} :
            /\ angle[n] % OrbitSpeed(n) = 0
            /\ angle[n] \div OrbitSpeed(n) <= frames)

\* Three ticks, two of them advancing, and a toggle to geocentric: Earth and
\* Moon hold two speeds each while Mars starts again from 0.
C27_Witness ==
    /\ ~isHeliocentric
    /\ frames = 3
    /\ angle["Earth"] = 580
    /\ angle["Moon"] = 1400
    /\ angle["Mars"] = 0

\* C28: the transition progress is within [0, 1] in every state; a frame that
\* finds progress = 1 writes neither the progress nor the camera, so that once
\* arrived the camera moves only when the user drags it; a toggle sets the
\* progress back to 0.
C28_ProgressBounded ==
    /\ [](animProgressRef \in 0..ProgressOne)
    /\ [](animProgressRef = ProgressOne =>
            \A delta \in Deltas :
                CameraCallback(animProgressRef, startPosRef, targetPos, cameraPos, delta)
                    = [animProgress |-> ProgressOne, cameraPos |-> cameraPos])
    /\ [][animProgressRef = ProgressOne /\ animTrigger' = animTrigger
            => /\ animProgressRef' = ProgressOne
               /\ cameraPos' # cameraPos => cameraPos' \in DragPositions]_vars
    /\ [][animTrigger' # animTrigger => animProgressRef' = 0]_vars

\* The transition to the geocentric target has finished and the user has
\* dragged the camera away: it stays where the drag left it.
C28_Witness ==
    /\ ~isHeliocentric
    /\ animProgressRef = ProgressOne
    /\ cameraPos = <<300, 300, 300>>
    /\ startPosRef # cameraPos

-----------------------------------------------------------------------------
(* The Moon around Earth *)

\* C29: in both frames, after a tick the Moon's world position is Earth's
\* position plus (2 cos m, 0, 2 sin m), m the Moon's new angle; Earth itself
\* is on its circle of radius 10 in heliocentric mode and at the origin in
\* geocentric mode.
C29_MoonAroundEarth ==
    [][TickStep =>
        LET m == seen["Moon"] + OrbitSpeed("Moon")
            e == pos'["Earth"]
        IN  /\ angle'["Moon"] = m
            /\ WorldPosition(pos', "Moon")
                    = <<e[1] + Cos(m) * 400, e[2], e[3] + Sin(m) * 400>>
            /\ e = (IF isHeliocentric
                    THEN <<Cos(angle'["Earth"]) * 2000, 0, Sin(angle'["Earth"]) * 2000>>
                    ELSE <<0, 0, 0>>)]_vars

\* Heliocentric mode, well into the orbit: Earth is off the x axis and the
\* Moon's world position is not its local one.
C29_Witness ==
    /\ isHeliocentric
    /\ frames >= 1
    /\ angle["Earth"] > Pi
    /\ pos["Earth"][3] # 0
    /\ pos["Moon"][3] # 0
    /\ WorldPosition(pos, "Moon") # pos["Moon"]

====
